---- MODULE Spec2Model ----
(***************************************************************************)
(* typr: push-to-talk dictation.  The hotkey handler of lib.rs spawns one  *)
(* task per key press (start_recording_audio) and one per key release      *)
(* (stop_recording_audio, then process_audio_file, then type_text).  The   *)
(* AudioRecorder and the pipeline are those of audio_processing.rs.        *)
(*                                                                         *)
(* A text is a sequence of one-character strings.                          *)
(***************************************************************************)
EXTENDS Integers, Sequences, FiniteSets, TLC

VARIABLES
    clock,   \* Local::now() at one-second resolution
    files,   \* the file system under /tmp/typr: path -> bytes written, or NoFile
    state,   \* RecordingState behind Arc<Mutex<..>>
    lock,    \* the task holding the Mutex<RecordingState>, 0 when free
    rec,     \* the AudioRecorder created by each start task
    kind,    \* what each spawned task is: "start", "stop", or "none" (not spawned)
    pc,      \* where each task is
    res,     \* what start_recording_audio / stop_recording_audio returned to the task
    held,    \* the recorder a stop task took out of the state (its local `recorder`), 0 when none
    pipe,    \* the locals of each task's process_audio_file call
    typed,   \* the texts handed to type_text, in order
    store    \* the settings store .settings.dat

vars == <<clock, files, state, lock, rec, kind, pc, res, held, pipe, typed, store>>

(***************************************************************************)
(* Bounds of the model.                                                    *)
(***************************************************************************)
MaxTasks == 3
MaxClock == 2
MaxFrames == 1
MaxLen == 4

TaskIds == 1..MaxTasks
Paths == 1..MaxClock

(***************************************************************************)
(* Texts and the str operations the pipeline uses.                         *)
(***************************************************************************)
Empty == <<>>

\* char::is_whitespace, over the characters the model uses
IsWs(c) == c \in {" ", "\n", "\t", "\r"}

RECURSIVE TrimStart(_)
TrimStart(s) ==
    IF s = <<>> THEN <<>>
    ELSE IF IsWs(Head(s)) THEN TrimStart(Tail(s)) ELSE s

RECURSIVE TrimEnd(_)
TrimEnd(s) ==
    IF s = <<>> THEN <<>>
    ELSE IF IsWs(s[Len(s)]) THEN TrimEnd(SubSeq(s, 1, Len(s) - 1)) ELSE s

\* str::trim
Trim(s) == TrimEnd(TrimStart(s))

\* position of the first "\n" of s, 0 when there is none
FirstNewline(s) ==
    IF \E i \in 1..Len(s) : s[i] = "\n"
    THEN CHOOSE i \in 1..Len(s) : s[i] = "\n" /\ \A j \in 1..(i - 1) : s[j] # "\n"
    ELSE 0

\* a line that ended in "\n" loses one "\r" before it
StripCR(l) ==
    IF l # <<>> /\ l[Len(l)] = "\r" THEN SubSeq(l, 1, Len(l) - 1) ELSE l

\* str::lines: split at "\n" (or "\r\n"); the final line ending is optional
RECURSIVE Lines(_)
Lines(s) ==
    IF s = <<>> THEN <<>>
    ELSE LET i == FirstNewline(s)
         IN  IF i = 0 THEN <<s>>
             ELSE <<StripCR(SubSeq(s, 1, i - 1))>> \o Lines(SubSeq(s, i + 1, Len(s)))

\* [&str]::join(sep)
RECURSIVE Join(_, _)
Join(ls, sep) ==
    IF ls = <<>> THEN <<>>
    ELSE IF Len(ls) = 1 THEN ls[1]
    ELSE ls[1] \o sep \o Join(Tail(ls), sep)

\* str::replace(from, to): the non-overlapping matches, found left to right
RECURSIVE Replace(_, _, _)
Replace(s, from, to) ==
    IF Len(s) < Len(from) THEN s
    ELSE IF SubSeq(s, 1, Len(from)) = from
         THEN to \o Replace(SubSeq(s, Len(from) + 1, Len(s)), from, to)
         ELSE <<Head(s)>> \o Replace(Tail(s), from, to)

\* char::to_lowercase, over the letters the model uses
LowerChar(c) ==
    CASE c = "N" -> "n" [] c = "O" -> "o" [] c = "T" -> "t" [] c = "E" -> "e"
      [] c = "H" -> "h" [] c = "D" -> "d" [] c = "I" -> "i" [] c = "R" -> "r"
      [] OTHER -> c

\* str::to_lowercase
to_lowercase(s) == [i \in 1..Len(s) |-> LowerChar(s[i])]

\* str::contains(pat)
contains(s, pat) ==
    \E i \in 1..(Len(s) - Len(pat) + 1) : SubSeq(s, i, i + Len(pat) - 1) = pat

(***************************************************************************)
(* The texts the remote services answer with.                              *)
(***************************************************************************)
TriggerPhrase == <<"n", "o", "t", "e", " ", "t", "o", " ", "t", "h", "e", " ", "e", "d", "i", "t", "o", "r">>
HelloWorld == <<"h", "e", "l", "l", "o", " ", "w", "o", "r", "l", "d">>
HelloSlap == <<"h", "e", "l", "l", "o", " ", "s", "l", "a", "p", " ", "w", "o", "r", "l", "d", " ", "s", "l", "a", "p", " ", "a", "g", "a", "i", "n">>
HelloLines == <<"h", "e", "l", "l", "o", "\n", "w", "o", "r", "l", "d", "\n", "a", "g", "a", "i", "n">>
NoteShip == <<"n", "o", "t", "e", " ", "t", "o", " ", "t", "h", "e", " ", "e", "d", "i", "t", "o", "r", ":", " ", "s", "h", "i", "p", " ", "i", "t">>
UpperNote == <<"N", "O", "T", "E", " ", "T", "O", " ", "T", "H", "E", " ", "E", "D", "I", "T", "O", "R">>
NoteWide == <<"n", "o", "t", "e", " ", " ", "t", "o", " ", "t", "h", "e", " ", "e", "d", "i", "t", "o", "r">>
NoteBroken == <<"n", "o", "t", "e", " ", "t", "o", "\n", "t", "h", "e", " ", "e", "d", "i", "t", "o", "r">>
Slap == <<"s", "l", "a", "p">>
Fix == <<"f", "i", "x">>

WsAlphabet == {"a", " ", "\n", "\t"}

\* every text of at most MaxLen characters over WsAlphabet
ShortTexts == UNION {[1..n -> WsAlphabet] : n \in 0..MaxLen}

\* what the speech-to-text service may return
SttTexts == {Empty, HelloWorld, HelloSlap, NoteShip}

\* what the text-generation service may return as message content
ThreeSpaces == <<"a", " ", " ", " ", "b">>

ChatTexts ==
    ShortTexts \cup {HelloWorld, HelloSlap, HelloLines, NoteShip, UpperNote, NoteWide,
                     NoteBroken, ThreeSpaces}

EscTexts == {Empty, <<"o", "k">>, <<" ", "o", "k", "\n">>}

\* the texts of the whole-system specification
SysStt == {<<"a">>}
SysChat == {<<"a">>, TriggerPhrase}
SysEsc == {<<"b">>}

(***************************************************************************)
(* The settings store.                                                     *)
(***************************************************************************)
KeyValues == {"absent", "notstring", "empty", "valid"}

Stores == [openAIKey : KeyValues, whisperPrompt : {Empty}, llmPrompt : {Empty, Fix}]

SysStores == [openAIKey : {"absent", "valid"}, whisperPrompt : {Empty}, llmPrompt : {Fix}]

\* the empty key taken for a key
get_openai_api_key_from_store_EmptyAccepted(st) ==
    IF st.openAIKey = "absent" THEN [ok |-> FALSE, err |-> "OpenAI API key not found in store"]
    ELSE IF st.openAIKey = "notstring" THEN [ok |-> FALSE, err |-> "API key is not a string"]
    ELSE [ok |-> TRUE, key |-> st.openAIKey]

\* store.rs get_openai_api_key_from_store
get_openai_api_key_from_store(st) ==
    IF st.openAIKey = "absent" THEN [ok |-> FALSE, err |-> "OpenAI API key not found in store"]
    ELSE IF st.openAIKey = "notstring" THEN [ok |-> FALSE, err |-> "API key is not a string"]
    ELSE IF st.openAIKey = "empty" THEN [ok |-> FALSE, err |-> "OpenAI API key is empty"]
    ELSE [ok |-> TRUE, key |-> st.openAIKey]

\* store.rs get_custom_settings_from_store
get_custom_settings_from_store(st) ==
    [whisper_prompt |-> st.whisperPrompt, llm_prompt |-> st.llmPrompt]

(***************************************************************************)
(* process_audio_file of audio_processing.rs: its pure parts.              *)
(***************************************************************************)
replacements == << [from |-> Slap, to |-> <<"\n">>] >>

should_perform_substitutions == Len(replacements) > 0

\* how a request to a remote service may end
HttpFail == {"Transport", "Status"}
ChatFail == {"Transport", "Status", "Malformed"}

\* every request carries the key as its bearer token
TranscriptionRequest(api_key, audio, prompt) ==
    [stage |-> "transcribe", model |-> "whisper-1", key |-> api_key, audio |-> audio,
     prompt |-> prompt, rules |-> <<>>, text |-> Empty]

\* the request without the keyword substitutions
SubstitutionRequest_NoRules(api_key, rules, transcription) ==
    [stage |-> "substitute", model |-> "gpt-4.1-mini", key |-> api_key, audio |-> <<>>,
     prompt |-> Empty, rules |-> <<>>, text |-> transcription]

SubstitutionRequest(api_key, rules, transcription) ==
    [stage |-> "substitute", model |-> "gpt-4.1-mini", key |-> api_key, audio |-> <<>>,
     prompt |-> Empty, rules |-> rules, text |-> transcription]

EscalationRequest(api_key, llm_prompt, transcription) ==
    [stage |-> "escalate", model |-> "gpt-4o-mini", key |-> api_key, audio |-> <<>>,
     prompt |-> llm_prompt, rules |-> <<>>, text |-> transcription]

\* the content taken untrimmed
SubstitutedText_NoTrim(content) == content

\* the transcription a successful substitution response leaves
SubstitutedText(content) == Trim(content)

TrimLines(ls) == [i \in 1..Len(ls) |-> Trim(ls[i])]

\* "Clean up whitespace"
WhitespaceCleanup(t) ==
    Replace(Join(TrimLines(Lines(t)), <<"\n">>), <<" ", " ">>, <<" ">>)

\* the decision taken on the text as it is, upper case included
should_process_with_gpt_CaseSensitive(transcription) ==
    contains(transcription, TriggerPhrase)

\* the escalation decision
should_process_with_gpt(transcription) ==
    contains(to_lowercase(transcription), TriggerPhrase)

\* openai_response of the two branches
EscalatedText(content) == Trim(content)
PlainText(transcription) == Trim(transcription)

(***************************************************************************)
(* AudioRecorder of audio_processing.rs.                                   *)
(***************************************************************************)
NoFile == [exists |-> FALSE, data |-> <<>>]
NewFile == [exists |-> TRUE, data |-> <<>>]

\* a recorder that does not exist (never created, or dropped).  callback is where
\* the stream's data callback is ("idle" between invocations), stream_error whether
\* the stream has called err_fn, encoder_lock and file_lock who holds the Mutex
\* around the encoder and around the file ("free", "callback" or "stop")
NoRecorder ==
    [alive |-> FALSE, is_recording |-> FALSE, stream |-> FALSE, encoder |-> FALSE,
     output_file |-> FALSE, current_file |-> 0, callback |-> "idle",
     stream_error |-> FALSE, encoder_lock |-> "free", file_lock |-> "free"]

\* AudioRecorder::new
NewRecorder == [NoRecorder EXCEPT !.alive = TRUE]

\* how start_recording may end: the early returns before File::create, those after, and Ok
FailBeforeFile == {"NoDevice", "ConfigErr", "CreateErr"}
FailAfterFile == {"Unsupported", "BuildErr", "PlayErr"}
StartOutcomes == FailBeforeFile \cup FailAfterFile \cup {"Ok"}

\* AudioRecorder::start_recording on recorder r at time now; created is the path
\* File::create was called on, 0 when it was not
start_recording(r, outcome, now) ==
    IF r.is_recording
    THEN [rec |-> r, res |-> "AlreadyRecording", created |-> 0]
    ELSE IF outcome \in FailBeforeFile
    THEN [rec |-> [r EXCEPT !.is_recording = TRUE], res |-> outcome, created |-> 0]
    ELSE IF outcome \in FailAfterFile
    THEN [rec |-> [r EXCEPT !.is_recording = TRUE, !.current_file = now],
          res |-> outcome, created |-> now]
    ELSE [rec |-> [r EXCEPT !.is_recording = TRUE, !.current_file = now,
                            !.stream = TRUE, !.encoder = TRUE, !.output_file = TRUE],
          res |-> "Ok", created |-> now]

\* the stream left open
stop_stream_KeepStream(r) ==
    IF ~r.is_recording THEN r
    ELSE [r EXCEPT !.is_recording = FALSE]

\* AudioRecorder::stop_recording, up to and including self.stream.take()
stop_stream(r) ==
    IF ~r.is_recording THEN r
    ELSE [r EXCEPT !.is_recording = FALSE, !.stream = FALSE]

\* the bytes stop_recording adds to the output file: the encoder's flush, when the
\* encoder and the file are there and flush succeeds
flush_bytes(r, flushed) ==
    IF r.encoder /\ r.output_file /\ flushed THEN <<"flush">> ELSE <<>>

\* output_file.write_all(encoded_data).ok(): the bytes that reach the file
write_all(bytes, written) == IF written THEN bytes ELSE <<>>

WriteFile(fs, path, bytes) ==
    IF path = 0 THEN fs ELSE [fs EXCEPT ![path].data = @ \o bytes]

\* the sessions: recorders with an open device stream
Sessions == {r \in TaskIds : rec[r].alive /\ rec[r].stream}

(***************************************************************************)
(* The global shortcut handler of lib.rs: one task per event.              *)
(***************************************************************************)
NoPipe ==
    [audio_path |-> 0, api_key |-> "", whisper_prompt |-> Empty, llm_prompt |-> Empty,
     audio_data |-> <<>>, raw |-> Empty, content |-> Empty, transcription |-> Empty,
     should_process_with_gpt |-> FALSE, esc_content |-> Empty, openai_response |-> Empty,
     requests |-> <<>>, result |-> "none", err |-> ""]

\* the next task the runtime spawns, 0 when the bound is reached
NextTask ==
    IF \E t \in TaskIds : kind[t] = "none"
    THEN CHOOSE t \in TaskIds : kind[t] = "none" /\ \A u \in 1..(t - 1) : kind[u] # "none"
    ELSE 0

\* ShortcutState::Pressed
Pressed ==
    /\ NextTask # 0
    /\ kind' = [kind EXCEPT ![NextTask] = "start"]
    /\ pc' = [pc EXCEPT ![NextTask] = "s_lock"]
    /\ UNCHANGED <<clock, files, state, lock, rec, res, held, pipe, typed, store>>

\* ShortcutState::Released
Released ==
    /\ NextTask # 0
    /\ kind' = [kind EXCEPT ![NextTask] = "stop"]
    /\ pc' = [pc EXCEPT ![NextTask] = "p_lock"]
    /\ UNCHANGED <<clock, files, state, lock, rec, res, held, pipe, typed, store>>

\* a second passes
Tick ==
    /\ clock < MaxClock
    /\ clock' = clock + 1
    /\ UNCHANGED <<files, state, lock, rec, kind, pc, res, held, pipe, typed, store>>

\* a lock that excludes nobody
LockFree_NoExclusion(l) == TRUE

\* Mutex::lock returns
LockFree(l) == l = 0

\* the check left out
AlreadyRecording_Unchecked(st) == FALSE

\* "Check if already recording"
AlreadyRecording(st) == st.is_recording

\* the check left out
NotRecording_Unchecked(st) == FALSE

\* "Check if recording"
NotRecording(st) == ~st.is_recording

\* start_recording_audio: the state lock is taken
StartLock(t) ==
    /\ pc[t] = "s_lock"
    /\ LockFree(lock)
    /\ lock' = t
    /\ pc' = [pc EXCEPT ![t] = "s_check"]
    /\ UNCHANGED <<clock, files, state, rec, kind, res, held, pipe, typed, store>>

\* start_recording_audio: the check, and AudioRecorder::new
StartCheck(t) ==
    /\ pc[t] = "s_check"
    /\ IF AlreadyRecording(state)
       THEN /\ res' = [res EXCEPT ![t] = "AlreadyRecording"]
            /\ lock' = 0
            /\ pc' = [pc EXCEPT ![t] = "done"]
            /\ rec' = rec
       ELSE /\ rec' = [rec EXCEPT ![t] = NewRecorder]
            /\ pc' = [pc EXCEPT ![t] = "s_start"]
            /\ UNCHANGED <<res, lock>>
    /\ UNCHANGED <<clock, files, state, kind, held, pipe, typed, store>>

\* start_recording_audio: recorder.start_recording(); on Err the recorder is dropped
StartRecorder(t) ==
    /\ pc[t] = "s_start"
    /\ \E outcome \in StartOutcomes :
         LET r == start_recording(rec[t], outcome, clock)
         IN  /\ files' = IF r.created = 0 THEN files
                         ELSE [files EXCEPT ![r.created] = NewFile]
             /\ IF r.res = "Ok"
                THEN /\ rec' = [rec EXCEPT ![t] = r.rec]
                     /\ pc' = [pc EXCEPT ![t] = "s_update"]
                     /\ UNCHANGED <<res, lock>>
                ELSE /\ rec' = [rec EXCEPT ![t] = NoRecorder]
                     /\ res' = [res EXCEPT ![t] = "StartFailed"]
                     /\ lock' = 0
                     /\ pc' = [pc EXCEPT ![t] = "done"]
    /\ UNCHANGED <<clock, state, kind, held, pipe, typed, store>>

\* the flag set and the recorder let go
StartUpdate_FlagOnly(t) ==
    /\ pc[t] = "s_update"
    /\ state' = [is_recording |-> TRUE, recorder |-> 0]
    /\ rec' = [rec EXCEPT ![t] = NoRecorder]
    /\ res' = [res EXCEPT ![t] = "Ok"]
    /\ lock' = 0
    /\ pc' = [pc EXCEPT ![t] = "done"]
    /\ UNCHANGED <<clock, files, kind, held, pipe, typed, store>>

\* start_recording_audio: "Update state"; the recorder the state held is dropped
StartUpdate(t) ==
    /\ pc[t] = "s_update"
    /\ state' = [is_recording |-> TRUE, recorder |-> t]
    /\ rec' = IF state.recorder \in TaskIds \ {t}
              THEN [rec EXCEPT ![state.recorder] = NoRecorder] ELSE rec
    /\ res' = [res EXCEPT ![t] = "Ok"]
    /\ lock' = 0
    /\ pc' = [pc EXCEPT ![t] = "done"]
    /\ UNCHANGED <<clock, files, kind, held, pipe, typed, store>>

\* the input stream's data callback is invoked: the samples are converted to the
\* two PCM vectors and the MP3 buffer is allocated
CallbackInvoke(r) ==
    /\ rec[r].alive /\ rec[r].stream
    /\ rec[r].callback = "idle"
    /\ Len(files[rec[r].current_file].data) < MaxFrames
    /\ rec' = [rec EXCEPT ![r].callback = "converted"]
    /\ UNCHANGED <<clock, files, state, lock, kind, pc, res, held, pipe, typed, store>>

\* the same invocation goes on: it locks the encoder and the file, encodes, writes
\* the encoded bytes to the file, and returns
CallbackWrite(r) ==
    /\ rec[r].alive
    /\ rec[r].callback = "converted"
    /\ \E encoded \in BOOLEAN, written \in BOOLEAN :
         files' = WriteFile(files, rec[r].current_file,
                            IF encoded THEN write_all(<<"frame">>, written) ELSE <<>>)
    /\ rec' = [rec EXCEPT ![r].callback = "idle"]
    /\ UNCHANGED <<clock, state, lock, kind, pc, res, held, pipe, typed, store>>

\* the stream reports an error (the device is removed): err_fn logs it
StreamError(r) ==
    /\ rec[r].alive /\ rec[r].stream
    /\ ~rec[r].stream_error
    /\ rec' = [rec EXCEPT ![r].stream_error = TRUE]
    /\ UNCHANGED <<clock, files, state, lock, kind, pc, res, held, pipe, typed, store>>

\* stop_recording_audio: the state lock is taken
StopLock(t) ==
    /\ pc[t] = "p_lock"
    /\ LockFree(lock)
    /\ lock' = t
    /\ pc' = [pc EXCEPT ![t] = "p_check"]
    /\ UNCHANGED <<clock, files, state, rec, kind, res, held, pipe, typed, store>>

\* stop_recording_audio: the check, the recorder taken out of the state, and
\* recorder.stop_recording() up to the stream's drop; dropping a cpal::Stream
\* returns once the callback invocation under way has returned
StopCheck(t) ==
    /\ pc[t] = "p_check"
    /\ IF NotRecording(state)
       THEN /\ res' = [res EXCEPT ![t] = "OkNone"]
            /\ lock' = 0
            /\ pc' = [pc EXCEPT ![t] = "done"]
            /\ UNCHANGED <<state, rec, held>>
       ELSE IF state.recorder = 0
       THEN /\ res' = [res EXCEPT ![t] = "NoRecorderFound"]
            /\ lock' = 0
            /\ pc' = [pc EXCEPT ![t] = "done"]
            /\ UNCHANGED <<state, rec, held>>
       ELSE IF ~rec[state.recorder].is_recording
       THEN /\ state' = [is_recording |-> FALSE, recorder |-> 0]
            /\ rec' = [rec EXCEPT ![state.recorder] = NoRecorder]
            /\ res' = [res EXCEPT ![t] = "OkNone"]
            /\ lock' = 0
            /\ pc' = [pc EXCEPT ![t] = "done"]
            /\ held' = held
       ELSE /\ rec[state.recorder].callback = "idle"
            /\ state' = [is_recording |-> FALSE, recorder |-> 0]
            /\ rec' = [rec EXCEPT ![state.recorder] = stop_stream(@)]
            /\ held' = [held EXCEPT ![t] = state.recorder]
            /\ pc' = [pc EXCEPT ![t] = "p_flush"]
            /\ UNCHANGED <<res, lock>>
    /\ UNCHANGED <<clock, files, kind, pipe, typed, store>>

\* the recorder kept alive after the return
StopFlush_RecorderKept(t) ==
    /\ pc[t] = "p_flush"
    /\ \E flushed \in BOOLEAN, written \in BOOLEAN :
         LET r == rec[held[t]]
             path == r.current_file
         IN  /\ files' = WriteFile(files, path, write_all(flush_bytes(r, flushed), written))
             /\ rec' = rec
             /\ IF path # 0
                THEN /\ res' = [res EXCEPT ![t] = "OkSome"]
                     /\ pipe' = [pipe EXCEPT ![t].audio_path = path]
                     /\ pc' = [pc EXCEPT ![t] = "p_key"]
                ELSE /\ res' = [res EXCEPT ![t] = "OkNone"]
                     /\ pipe' = pipe
                     /\ pc' = [pc EXCEPT ![t] = "done"]
    /\ held' = [held EXCEPT ![t] = 0]
    /\ lock' = 0
    /\ UNCHANGED <<clock, state, kind, typed, store>>

\* recorder.stop_recording(): the flush, the path returned; the recorder is dropped
StopFlush(t) ==
    /\ pc[t] = "p_flush"
    /\ \E flushed \in BOOLEAN, written \in BOOLEAN :
         LET r == rec[held[t]]
             path == r.current_file
         IN  /\ files' = WriteFile(files, path, write_all(flush_bytes(r, flushed), written))
             /\ rec' = [rec EXCEPT ![held[t]] = NoRecorder]
             /\ IF path # 0
                THEN /\ res' = [res EXCEPT ![t] = "OkSome"]
                     /\ pipe' = [pipe EXCEPT ![t].audio_path = path]
                     /\ pc' = [pc EXCEPT ![t] = "p_key"]
                ELSE /\ res' = [res EXCEPT ![t] = "OkNone"]
                     /\ pipe' = pipe
                     /\ pc' = [pc EXCEPT ![t] = "done"]
    /\ held' = [held EXCEPT ![t] = 0]
    /\ lock' = 0
    /\ UNCHANGED <<clock, state, kind, typed, store>>

(***************************************************************************)
(* The released-key task after Ok(Some(path)): process_audio_file of       *)
(* lib.rs, process_audio_file of audio_processing.rs, type_text.  A step   *)
(* ends where the task reads shared state or awaits a response.            *)
(***************************************************************************)
Fail(p, kind_of_error) == [p EXCEPT !.result = "Err", !.err = kind_of_error]

\* what lib.rs process_audio_file returns when the key cannot be had
MissingCredential == "OpenAI API key not found. Please add your API key in the settings."

\* lib.rs process_audio_file: the key and the custom settings are read
ReadSettings(t) ==
    /\ pc[t] = "p_key"
    /\ LET key == get_openai_api_key_from_store(store)
           settings == get_custom_settings_from_store(store)
       IN  IF ~key.ok
           THEN /\ pipe' = [pipe EXCEPT ![t] = Fail(@, MissingCredential)]
                /\ pc' = [pc EXCEPT ![t] = "done"]
           ELSE /\ pipe' = [pipe EXCEPT ![t].api_key = key.key,
                                        ![t].whisper_prompt = settings.whisper_prompt,
                                        ![t].llm_prompt = settings.llm_prompt]
                /\ pc' = [pc EXCEPT ![t] = "p_read"]
    /\ UNCHANGED <<clock, files, state, lock, rec, kind, res, held, typed, store>>

\* the file read only once the engine is idle
ReadAudio_AwaitsIdleEngine(t) ==
    /\ pc[t] = "p_read"
    /\ ~state.is_recording
    /\ \E io_ok \in BOOLEAN :
         IF ~io_ok \/ ~files[pipe[t].audio_path].exists
         THEN /\ pipe' = [pipe EXCEPT ![t] = Fail(@, "Io")]
              /\ pc' = [pc EXCEPT ![t] = "done"]
         ELSE /\ pipe' = [pipe EXCEPT
                    ![t].audio_data = files[pipe[t].audio_path].data,
                    ![t].requests = Append(@, TranscriptionRequest(
                        pipe[t].api_key, files[pipe[t].audio_path].data,
                        pipe[t].whisper_prompt))]
              /\ pc' = [pc EXCEPT ![t] = "p_stt"]
    /\ UNCHANGED <<clock, files, state, lock, rec, kind, res, held, typed, store>>

\* fs::read(audio_path), the temporary copy, and the transcription request sent
ReadAudio(t) ==
    /\ pc[t] = "p_read"
    /\ \E io_ok \in BOOLEAN :
         IF ~io_ok \/ ~files[pipe[t].audio_path].exists
         THEN /\ pipe' = [pipe EXCEPT ![t] = Fail(@, "Io")]
              /\ pc' = [pc EXCEPT ![t] = "done"]
         ELSE /\ pipe' = [pipe EXCEPT
                    ![t].audio_data = files[pipe[t].audio_path].data,
                    ![t].requests = Append(@, TranscriptionRequest(
                        pipe[t].api_key, files[pipe[t].audio_path].data,
                        pipe[t].whisper_prompt))]
              /\ pc' = [pc EXCEPT ![t] = "p_stt"]
    /\ UNCHANGED <<clock, files, state, lock, rec, kind, res, held, typed, store>>

\* the pipeline after the transcription came back as text
AfterTranscription(p, text) ==
    IF should_perform_substitutions
    THEN [p EXCEPT !.raw = text,
                   !.requests = Append(@, SubstitutionRequest(p.api_key, replacements, text))]
    ELSE [p EXCEPT !.raw = text, !.content = text]

\* the instructions read from the store again when the escalation request is built
AfterSubstitution_RereadsStore(p, substituted) ==
    LET transcription == WhitespaceCleanup(substituted)
        escalate == should_process_with_gpt(transcription)
    IN  IF escalate
        THEN [p EXCEPT !.transcription = transcription,
                       !.should_process_with_gpt = TRUE,
                       !.requests = Append(@, EscalationRequest(p.api_key, store.llmPrompt,
                                                                transcription))]
        ELSE [p EXCEPT !.transcription = transcription,
                       !.should_process_with_gpt = FALSE,
                       !.openai_response = PlainText(transcription),
                       !.result = "Ok"]

\* the escalation decided on the text before the clean-up
AfterSubstitution_DecideFirst(p, substituted) ==
    LET transcription == WhitespaceCleanup(substituted)
        escalate == should_process_with_gpt(substituted)
    IN  IF escalate
        THEN [p EXCEPT !.transcription = transcription,
                       !.should_process_with_gpt = TRUE,
                       !.requests = Append(@, EscalationRequest(p.api_key, p.llm_prompt, transcription))]
        ELSE [p EXCEPT !.transcription = transcription,
                       !.should_process_with_gpt = FALSE,
                       !.openai_response = PlainText(transcription),
                       !.result = "Ok"]

\* the pipeline after the substituted transcription is known: the clean-up, the
\* escalation decision and, when it says so, the escalation request sent
AfterSubstitution(p, substituted) ==
    LET transcription == WhitespaceCleanup(substituted)
        escalate == should_process_with_gpt(transcription)
    IN  IF escalate
        THEN [p EXCEPT !.transcription = transcription,
                       !.should_process_with_gpt = TRUE,
                       !.requests = Append(@, EscalationRequest(p.api_key, p.llm_prompt, transcription))]
        ELSE [p EXCEPT !.transcription = transcription,
                       !.should_process_with_gpt = FALSE,
                       !.openai_response = PlainText(transcription),
                       !.result = "Ok"]

\* the transcription response arrives (or the request fails)
TranscriptionResponse(t, Texts) ==
    /\ pc[t] = "p_stt"
    /\ \E outcome \in HttpFail \cup {"Ok"}, text \in Texts :
         IF outcome # "Ok"
         THEN /\ pipe' = [pipe EXCEPT ![t] = Fail(@, outcome)]
              /\ pc' = [pc EXCEPT ![t] = "done"]
         ELSE /\ pipe' = [pipe EXCEPT ![t] = AfterTranscription(@, text)]
              /\ pc' = [pc EXCEPT ![t] = "p_subst"]
    /\ UNCHANGED <<clock, files, state, lock, rec, kind, res, held, typed, store>>

\* the substitution response arrives (or the request fails)
SubstitutionResponse(t, Texts) ==
    /\ pc[t] = "p_subst"
    /\ \E outcome \in ChatFail \cup {"Ok"}, content \in Texts :
         IF outcome # "Ok"
         THEN /\ pipe' = [pipe EXCEPT ![t] = Fail(@, outcome)]
              /\ pc' = [pc EXCEPT ![t] = "done"]
         ELSE LET p == AfterSubstitution([pipe[t] EXCEPT !.content = content],
                                         SubstitutedText(content))
              IN  /\ pipe' = [pipe EXCEPT ![t] = p]
                  /\ pc' = [pc EXCEPT ![t] = IF p.should_process_with_gpt
                                             THEN "p_esc" ELSE "p_type"]
    /\ UNCHANGED <<clock, files, state, lock, rec, kind, res, held, typed, store>>

\* the escalation response arrives (or the request fails)
EscalationResponse(t, Texts) ==
    /\ pc[t] = "p_esc"
    /\ \E outcome \in ChatFail \cup {"Ok"}, content \in Texts :
         IF outcome # "Ok"
         THEN /\ pipe' = [pipe EXCEPT ![t] = Fail(@, outcome)]
              /\ pc' = [pc EXCEPT ![t] = "done"]
         ELSE /\ pipe' = [pipe EXCEPT ![t].esc_content = content,
                                      ![t].openai_response = EscalatedText(content),
                                      ![t].result = "Ok"]
              /\ pc' = [pc EXCEPT ![t] = "p_type"]
    /\ UNCHANGED <<clock, files, state, lock, rec, kind, res, held, typed, store>>

\* the transcript typed in place of the final text
TypeText_Transcription(t) ==
    /\ pc[t] = "p_type"
    /\ \E enigo_ok \in BOOLEAN :
         typed' = IF enigo_ok THEN Append(typed, pipe[t].transcription) ELSE typed
    /\ pc' = [pc EXCEPT ![t] = "done"]
    /\ UNCHANGED <<clock, files, state, lock, rec, kind, res, held, pipe, store>>

\* type_text(result.openai_response); Enigo::new may fail, and then nothing is typed
TypeText(t) ==
    /\ pc[t] = "p_type"
    /\ \E enigo_ok \in BOOLEAN :
         typed' = IF enigo_ok THEN Append(typed, pipe[t].openai_response) ELSE typed
    /\ pc' = [pc EXCEPT ![t] = "done"]
    /\ UNCHANGED <<clock, files, state, lock, rec, kind, res, held, pipe, store>>

(***************************************************************************)
(* The whole system.                                                       *)
(***************************************************************************)
Init ==
    /\ clock = 1
    /\ files = [p \in Paths |-> NoFile]
    /\ state = [is_recording |-> FALSE, recorder |-> 0]
    /\ lock = 0
    /\ rec = [t \in TaskIds |-> NoRecorder]
    /\ kind = [t \in TaskIds |-> "none"]
    /\ pc = [t \in TaskIds |-> "idle"]
    /\ res = [t \in TaskIds |-> "none"]
    /\ held = [t \in TaskIds |-> 0]
    /\ pipe = [t \in TaskIds |-> NoPipe]
    /\ typed = <<>>
    /\ store \in SysStores

Next ==
    \/ Pressed
    \/ Released
    \/ Tick
    \/ \E t \in TaskIds : StartLock(t)
    \/ \E t \in TaskIds : StartCheck(t)
    \/ \E t \in TaskIds : StartRecorder(t)
    \/ \E t \in TaskIds : StartUpdate(t)
    \/ \E r \in TaskIds : CallbackInvoke(r)
    \/ \E r \in TaskIds : CallbackWrite(r)
    \/ \E t \in TaskIds : StopLock(t)
    \/ \E t \in TaskIds : StopCheck(t)
    \/ \E t \in TaskIds : StopFlush(t)
    \/ \E t \in TaskIds : ReadSettings(t)
    \/ \E t \in TaskIds : ReadAudio(t)
    \/ \E t \in TaskIds : TranscriptionResponse(t, SysStt)
    \/ \E t \in TaskIds : SubstitutionResponse(t, SysChat)
    \/ \E t \in TaskIds : EscalationResponse(t, SysEsc)
    \/ \E t \in TaskIds : TypeText(t)

Spec == Init /\ [][Next]_vars

(***************************************************************************)
(* The capture side alone, with the frontend's is_recording command: the   *)
(* hotkey, the start and stop tasks up to the return of                    *)
(* stop_recording_audio, the device callback, and the command.             *)
(***************************************************************************)
\* the frontend invokes the is_recording command
IsRecordingCalled ==
    /\ NextTask # 0
    /\ kind' = [kind EXCEPT ![NextTask] = "query"]
    /\ pc' = [pc EXCEPT ![NextTask] = "q_lock"]
    /\ UNCHANGED <<clock, files, state, lock, rec, res, held, pipe, typed, store>>

\* is_recording: the state lock is taken, state.is_recording is returned, and the
\* guard is dropped
IsRecording(t) ==
    /\ pc[t] = "q_lock"
    /\ LockFree(lock)
    /\ res' = [res EXCEPT ![t] = IF state.is_recording THEN "True" ELSE "False"]
    /\ pc' = [pc EXCEPT ![t] = "done"]
    /\ UNCHANGED <<clock, files, state, lock, rec, kind, held, pipe, typed, store>>

CaptureNext ==
    \/ Pressed
    \/ Released
    \/ IsRecordingCalled
    \/ Tick
    \/ \E t \in TaskIds : StartLock(t)
    \/ \E t \in TaskIds : StartCheck(t)
    \/ \E t \in TaskIds : StartRecorder(t)
    \/ \E t \in TaskIds : StartUpdate(t)
    \/ \E r \in TaskIds : CallbackInvoke(r)
    \/ \E r \in TaskIds : CallbackWrite(r)
    \/ \E t \in TaskIds : StopLock(t)
    \/ \E t \in TaskIds : StopCheck(t)
    \/ \E t \in TaskIds : StopFlush(t)
    \/ \E t \in TaskIds : IsRecording(t)

CaptureSpec == Init /\ [][CaptureNext]_vars

(***************************************************************************)
(* The capture engine with its three mutexes told apart: the state lock    *)
(* of lib.rs, and the locks around the encoder and around the output file  *)
(* that the data callback and stop_recording take one after the other.     *)
(***************************************************************************)
\* the callback reads the shared state under the state lock before it encodes
CallbackLockEncoder_AsksState(r) ==
    /\ rec[r].alive
    /\ rec[r].callback = "converted"
    /\ LockFree(lock)
    /\ rec[r].encoder_lock = "free"
    /\ rec' = [rec EXCEPT ![r].encoder_lock = "callback", ![r].callback = "encoder"]
    /\ UNCHANGED <<clock, files, state, lock, kind, pc, res, held, pipe, typed, store>>

\* the data callback: encoder_clone.lock()
CallbackLockEncoder(r) ==
    /\ rec[r].alive
    /\ rec[r].callback = "converted"
    /\ rec[r].encoder_lock = "free"
    /\ rec' = [rec EXCEPT ![r].encoder_lock = "callback", ![r].callback = "encoder"]
    /\ UNCHANGED <<clock, files, state, lock, kind, pc, res, held, pipe, typed, store>>

\* the data callback: output_file_clone.lock(), with the encoder's guard held
CallbackLockFile(r) ==
    /\ rec[r].alive
    /\ rec[r].callback = "encoder"
    /\ rec[r].file_lock = "free"
    /\ rec' = [rec EXCEPT ![r].file_lock = "callback", ![r].callback = "file"]
    /\ UNCHANGED <<clock, files, state, lock, kind, pc, res, held, pipe, typed, store>>

\* the data callback: encode, write_all, both guards dropped, return
CallbackEncode(r) ==
    /\ rec[r].alive
    /\ rec[r].callback = "file"
    /\ \E encoded \in BOOLEAN, written \in BOOLEAN :
         files' = WriteFile(files, rec[r].current_file,
                            IF encoded THEN write_all(<<"frame">>, written) ELSE <<>>)
    /\ rec' = [rec EXCEPT ![r].callback = "idle", ![r].encoder_lock = "free",
                          ![r].file_lock = "free"]
    /\ UNCHANGED <<clock, state, lock, kind, pc, res, held, pipe, typed, store>>

\* stop_recording: encoder.lock(), when the encoder and the file were taken out of
\* the recorder; without them nothing is locked
StopLockEncoder(t) ==
    /\ pc[t] = "p_flush"
    /\ IF rec[held[t]].encoder /\ rec[held[t]].output_file
       THEN /\ rec[held[t]].encoder_lock = "free"
            /\ rec' = [rec EXCEPT ![held[t]].encoder_lock = "stop"]
            /\ pc' = [pc EXCEPT ![t] = "p_encoder"]
       ELSE /\ rec' = rec
            /\ pc' = [pc EXCEPT ![t] = "p_write"]
    /\ UNCHANGED <<clock, files, state, lock, kind, res, held, pipe, typed, store>>

\* stop_recording: output_file.lock(), with the encoder's guard held
StopLockFile(t) ==
    /\ pc[t] = "p_encoder"
    /\ rec[held[t]].file_lock = "free"
    /\ rec' = [rec EXCEPT ![held[t]].file_lock = "stop"]
    /\ pc' = [pc EXCEPT ![t] = "p_write"]
    /\ UNCHANGED <<clock, files, state, lock, kind, res, held, pipe, typed, store>>

\* stop_recording: the flush and write_all, both guards dropped, the path returned;
\* stop_recording_audio returns: the recorder and the state's guard are dropped
StopWrite(t) ==
    /\ pc[t] = "p_write"
    /\ \E flushed \in BOOLEAN, written \in BOOLEAN :
         LET r == rec[held[t]]
             path == r.current_file
         IN  /\ files' = WriteFile(files, path, write_all(flush_bytes(r, flushed), written))
             /\ rec' = [rec EXCEPT ![held[t]] = NoRecorder]
             /\ IF path # 0
                THEN /\ res' = [res EXCEPT ![t] = "OkSome"]
                     /\ pipe' = [pipe EXCEPT ![t].audio_path = path]
                     /\ pc' = [pc EXCEPT ![t] = "p_key"]
                ELSE /\ res' = [res EXCEPT ![t] = "OkNone"]
                     /\ pipe' = pipe
                     /\ pc' = [pc EXCEPT ![t] = "done"]
    /\ held' = [held EXCEPT ![t] = 0]
    /\ lock' = 0
    /\ UNCHANGED <<clock, state, kind, typed, store>>

\* a step of the thread that runs task t
TaskStep(t) ==
    \/ StartLock(t)
    \/ StartCheck(t)
    \/ StartRecorder(t)
    \/ StartUpdate(t)
    \/ StopLock(t)
    \/ StopCheck(t)
    \/ StopLockEncoder(t)
    \/ StopLockFile(t)
    \/ StopWrite(t)
    \/ IsRecording(t)

\* a step of the audio thread inside an invocation of recorder r's callback
CallbackStep(r) ==
    \/ CallbackLockEncoder(r)
    \/ CallbackLockFile(r)
    \/ CallbackEncode(r)

LockNext ==
    \/ Pressed
    \/ Released
    \/ IsRecordingCalled
    \/ Tick
    \/ \E r \in TaskIds : CallbackInvoke(r)
    \/ \E r \in TaskIds : CallbackStep(r)
    \/ \E t \in TaskIds : TaskStep(t)

LockSpec == Init /\ [][LockNext]_vars

(***************************************************************************)
(* The whole system with the device stream's errors.  err_fn changes       *)
(* nothing the program reads; stream_error keeps that it has run.          *)
(***************************************************************************)
DeviceNext ==
    \/ Next
    \/ \E r \in TaskIds : StreamError(r)

DeviceSpec == Init /\ [][DeviceNext]_vars

(***************************************************************************)
(* One process_audio_file call on a finished artifact, over every answer   *)
(* the services may give.                                                  *)
(***************************************************************************)
PipeInit ==
    /\ clock = 1
    /\ files = [p \in Paths |-> IF p = 1 THEN [exists |-> TRUE, data |-> <<"flush">>]
                                ELSE NoFile]
    /\ state = [is_recording |-> FALSE, recorder |-> 0]
    /\ lock = 0
    /\ rec = [t \in TaskIds |-> NoRecorder]
    /\ kind = [t \in TaskIds |-> IF t = 1 THEN "start" ELSE IF t = 2 THEN "stop" ELSE "none"]
    /\ pc = [t \in TaskIds |-> IF t = 1 THEN "done" ELSE IF t = 2 THEN "p_key" ELSE "idle"]
    /\ res = [t \in TaskIds |-> IF t = 1 THEN "Ok" ELSE IF t = 2 THEN "OkSome" ELSE "none"]
    /\ held = [t \in TaskIds |-> 0]
    /\ pipe = [t \in TaskIds |-> IF t = 2 THEN [NoPipe EXCEPT !.audio_path = 1] ELSE NoPipe]
    /\ typed = <<>>
    /\ store \in Stores

PipeNext ==
    \/ \E t \in TaskIds : ReadSettings(t)
    \/ \E t \in TaskIds : ReadAudio(t)
    \/ \E t \in TaskIds : TranscriptionResponse(t, SttTexts)
    \/ \E t \in TaskIds : SubstitutionResponse(t, ChatTexts)
    \/ \E t \in TaskIds : EscalationResponse(t, EscTexts)
    \/ \E t \in TaskIds : TypeText(t)

PipeSpec == PipeInit /\ [][PipeNext]_vars

(***************************************************************************)
(* One process_audio_file call while the frontend saves settings.  The     *)
(* key and the custom settings are read by two calls, one after the other, *)
(* and the store may be written between any two steps.                     *)
(***************************************************************************)
SettingsStores ==
    [openAIKey : {"absent", "valid", "valid2"}, whisperPrompt : {Empty, <<"a">>},
     llmPrompt : {Empty, Fix}]

\* the frontend saves other settings to .settings.dat
SettingsChanged ==
    /\ \E st \in SettingsStores : st # store /\ store' = st
    /\ UNCHANGED <<clock, files, state, lock, rec, kind, pc, res, held, pipe, typed>>

\* lib.rs process_audio_file: get_openai_api_key_from_store
ReadKey(t) ==
    /\ pc[t] = "p_key"
    /\ LET key == get_openai_api_key_from_store(store)
       IN  IF ~key.ok
           THEN /\ pipe' = [pipe EXCEPT ![t] = Fail(@, MissingCredential)]
                /\ pc' = [pc EXCEPT ![t] = "done"]
           ELSE /\ pipe' = [pipe EXCEPT ![t].api_key = key.key]
                /\ pc' = [pc EXCEPT ![t] = "p_settings"]
    /\ UNCHANGED <<clock, files, state, lock, rec, kind, res, held, typed, store>>

\* lib.rs process_audio_file: get_custom_settings_from_store
ReadCustomSettings(t) ==
    /\ pc[t] = "p_settings"
    /\ LET settings == get_custom_settings_from_store(store)
       IN  pipe' = [pipe EXCEPT ![t].whisper_prompt = settings.whisper_prompt,
                                ![t].llm_prompt = settings.llm_prompt]
    /\ pc' = [pc EXCEPT ![t] = "p_read"]
    /\ UNCHANGED <<clock, files, state, lock, rec, kind, res, held, typed, store>>

SettingsInit ==
    /\ clock = 1
    /\ files = [p \in Paths |-> IF p = 1 THEN [exists |-> TRUE, data |-> <<"flush">>]
                                ELSE NoFile]
    /\ state = [is_recording |-> FALSE, recorder |-> 0]
    /\ lock = 0
    /\ rec = [t \in TaskIds |-> NoRecorder]
    /\ kind = [t \in TaskIds |-> IF t = 1 THEN "start" ELSE IF t = 2 THEN "stop" ELSE "none"]
    /\ pc = [t \in TaskIds |-> IF t = 1 THEN "done" ELSE IF t = 2 THEN "p_key" ELSE "idle"]
    /\ res = [t \in TaskIds |-> IF t = 1 THEN "Ok" ELSE IF t = 2 THEN "OkSome" ELSE "none"]
    /\ held = [t \in TaskIds |-> 0]
    /\ pipe = [t \in TaskIds |-> IF t = 2 THEN [NoPipe EXCEPT !.audio_path = 1] ELSE NoPipe]
    /\ typed = <<>>
    /\ store \in SettingsStores

SettingsNext ==
    \/ SettingsChanged
    \/ \E t \in TaskIds : ReadKey(t)
    \/ \E t \in TaskIds : ReadCustomSettings(t)
    \/ \E t \in TaskIds : ReadAudio(t)
    \/ \E t \in TaskIds : TranscriptionResponse(t, SysStt)
    \/ \E t \in TaskIds : SubstitutionResponse(t, SysChat)
    \/ \E t \in TaskIds : EscalationResponse(t, SysEsc)
    \/ \E t \in TaskIds : TypeText(t)

SettingsSpec == SettingsInit /\ [][SettingsNext]_vars

(***************************************************************************)
(* The whole system once a first session has been recorded and stopped:    *)
(* the task that started it has ended, the task that stopped it holds the  *)
(* artifact's path and is about to call process_audio_file, and the hotkey *)
(* goes on being pressed and released.                                     *)
(***************************************************************************)
SecondSessionInit ==
    /\ clock = 1
    /\ files = [p \in Paths |-> IF p = 1 THEN [exists |-> TRUE, data |-> <<"flush">>]
                                ELSE NoFile]
    /\ state = [is_recording |-> FALSE, recorder |-> 0]
    /\ lock = 0
    /\ rec = [t \in TaskIds |-> NoRecorder]
    /\ kind = [t \in TaskIds |-> IF t = 1 THEN "stop" ELSE "none"]
    /\ pc = [t \in TaskIds |-> IF t = 1 THEN "p_key" ELSE "idle"]
    /\ res = [t \in TaskIds |-> IF t = 1 THEN "OkSome" ELSE "none"]
    /\ held = [t \in TaskIds |-> 0]
    /\ pipe = [t \in TaskIds |-> IF t = 1 THEN [NoPipe EXCEPT !.audio_path = 1] ELSE NoPipe]
    /\ typed = <<>>
    /\ store \in SysStores

SecondSessionSpec == SecondSessionInit /\ [][Next]_vars

\* a step of task t's process_audio_file call
PipelineStep(t) ==
    \/ ReadSettings(t)
    \/ ReadAudio(t)
    \/ TranscriptionResponse(t, SysStt)
    \/ SubstitutionResponse(t, SysChat)
    \/ EscalationResponse(t, SysEsc)

\* the first session's call, up to its return, and whatever the hotkey starts and
\* stops meanwhile
LaterSessionNext ==
    \/ Pressed
    \/ Released
    \/ Tick
    \/ \E t \in TaskIds : StartLock(t)
    \/ \E t \in TaskIds : StartCheck(t)
    \/ \E t \in TaskIds : StartRecorder(t)
    \/ \E t \in TaskIds : StartUpdate(t)
    \/ \E t \in TaskIds : StopLock(t)
    \/ \E t \in TaskIds : StopCheck(t)
    \/ \E t \in TaskIds : StopFlush(t)
    \/ \E t \in TaskIds : PipelineStep(t)

\* the same, where the runtime goes on polling every spawned task that can take a
\* step and every request is answered or fails in the end; the hotkey, the clock
\* and the start and stop of a session are under no such obligation
PipelineFairSpec ==
    /\ SecondSessionInit
    /\ [][LaterSessionNext]_vars
    /\ \A t \in TaskIds : WF_vars(PipelineStep(t))

(***************************************************************************)
(* What the claims speak of.                                               *)
(***************************************************************************)
\* the requests task t's pipeline has issued from the given stage
RequestsOf(t, stage) ==
    {i \in 1..Len(pipe[t].requests) : pipe[t].requests[i].stage = stage}

\* the requests task t's pipeline has sent to the text-generation service
TextGenerationRequests(t) == RequestsOf(t, "substitute") \cup RequestsOf(t, "escalate")

\* task t's pipeline has a normalized transcript
Normalized(t) == pipe[t].result = "Ok" \/ pipe[t].should_process_with_gpt

\* the text holds "note to the editor" in some letter case
HasTrigger(text) ==
    \E i \in 1..(Len(text) - Len(TriggerPhrase) + 1) :
        \A j \in 1..Len(TriggerPhrase) : LowerChar(text[i + j - 1]) = TriggerPhrase[j]

\* each rule applied as a literal find/replace, in list order
RECURSIVE ApplyRules(_, _)
ApplyRules(text, rules) ==
    IF rules = <<>> THEN text
    ELSE ApplyRules(Replace(text, rules[1].from, rules[1].to), Tail(rules))

\* no line with whitespace at either end, no blank line, no two whitespace
\* characters in a row inside a line
CleanLine(l) ==
    /\ l # <<>>
    /\ ~IsWs(l[1]) /\ ~IsWs(l[Len(l)])
    /\ \A i \in 1..(Len(l) - 1) : ~(IsWs(l[i]) /\ IsWs(l[i + 1]))

CleanText(text) == \A i \in 1..Len(Lines(text)) : CleanLine(Lines(text)[i])

(***************************************************************************)
(* The claims.                                                             *)
(***************************************************************************)

\* C1: a start that finds the state recording returns "Already recording" and
\* leaves the state, every recorder (artifact path, stream, encoder, file handle)
\* and every file as they were; AudioRecorder::start_recording on a recorder that
\* is recording does the same.
C1_StartWhileRecordingRejected ==
    [][ /\ \A t \in TaskIds :
             (pc[t] = "s_check" /\ pc'[t] # "s_check" /\ state.is_recording)
                => /\ res'[t] = "AlreadyRecording"
                   /\ pc'[t] = "done"
                   /\ state' = state /\ rec' = rec /\ files' = files
        /\ \A r \in TaskIds, o \in StartOutcomes :
             rec[r].is_recording
                => start_recording(rec[r], o, clock)
                     = [rec |-> rec[r], res |-> "AlreadyRecording", created |-> 0]
      ]_vars

\* a start task was turned away while the session it met is still open
C1_Witness ==
    \E t \in TaskIds :
        /\ res[t] = "AlreadyRecording"
        /\ state.is_recording
        /\ state.recorder \in Sessions
        /\ rec[state.recorder].current_file # 0

\* C2: a stop that finds the state idle returns Ok(None), no error, and leaves the
\* state idle, with no recorder, file or pipeline touched.
C2_StopWhileIdleIsNoOp ==
    [][ \A t \in TaskIds :
          (pc[t] = "p_check" /\ pc'[t] # "p_check" /\ ~state.is_recording)
             => /\ res'[t] = "OkNone"
                /\ pc'[t] = "done"
                /\ state' = state /\ ~state'.is_recording /\ state'.recorder = 0
                /\ rec' = rec /\ files' = files /\ pipe' = pipe
      ]_vars

\* a stop task has returned Ok(None) and no session was made
C2_Witness ==
    \E t \in TaskIds :
        /\ kind[t] = "stop" /\ pc[t] = "done" /\ res[t] = "OkNone"
        /\ ~state.is_recording /\ Sessions = {}

\* C3: at most one recorder with an open device stream exists, in every state of
\* every interleaving of the start and stop tasks.
C3_AtMostOneSession == Cardinality(Sessions) <= 1

\* a session is open while a start task and a stop task both wait for the lock
C3_Witness ==
    /\ Cardinality(Sessions) = 1
    /\ \E t, u \in TaskIds : pc[t] = "s_lock" /\ pc[u] = "p_lock"

C5_TriggerEscalatesOnce ==
    \A t \in TaskIds :
        (Normalized(t) /\ HasTrigger(pipe[t].transcription))
           => /\ pipe[t].should_process_with_gpt
              /\ Cardinality(RequestsOf(t, "escalate")) = 1
              /\ pipe[t].requests[Len(pipe[t].requests)]
                   = [stage |-> "escalate", model |-> "gpt-4o-mini",
                      key |-> store.openAIKey, audio |-> <<>>,
                      prompt |-> store.llmPrompt, rules |-> <<>>,
                      text |-> pipe[t].transcription]
              /\ pipe[t].result = "Ok"
                   => pipe[t].openai_response = Trim(pipe[t].esc_content)
              /\ pc[t] = "p_type" => pipe[t].result = "Ok"

\* an upper-case trigger was escalated and the answer lost its outer whitespace
C5_Witness ==
    \E t \in TaskIds :
        /\ pipe[t].result = "Ok"
        /\ pipe[t].transcription = UpperNote
        /\ pipe[t].esc_content = <<" ", "o", "k", "\n">>
        /\ pipe[t].openai_response = <<"o", "k">>
        /\ store.llmPrompt = Fix

\* C6: once the escalation request has been answered or has failed, the call has
\* returned Ok, and after a failure the final text is the normalized transcript.
C6_EscalationFailureAbsorbed ==
    \A t \in TaskIds :
        (pipe[t].should_process_with_gpt /\ pc[t] # "p_esc")
           => /\ pipe[t].result = "Ok"
              /\ pipe[t].err # "" => pipe[t].openai_response = pipe[t].transcription

\* C7: the call fails with a service error exactly when the transcription request
\* (the only transcription path there is) failed.
C7_FailsOnlyWhenTranscriptionFails ==
    \A t \in TaskIds :
        (pipe[t].result = "Err" /\ pipe[t].err \in ChatFail)
           <=> (pipe[t].result = "Err" /\ RequestsOf(t, "transcribe") # {}
                /\ TextGenerationRequests(t) = {})

\* C8: after an empty raw transcript no escalation request is issued, and the
\* outcome the call returns has the empty final text.
C8_SilenceShortCircuits ==
    \A t \in TaskIds :
        (pipe[t].raw = Empty /\ RequestsOf(t, "substitute") # {})
           => /\ RequestsOf(t, "escalate") = {}
              /\ pipe[t].result = "Ok" => pipe[t].openai_response = Empty

C10_NormalizedIsClean ==
    \A t \in TaskIds : Normalized(t) => CleanText(pipe[t].transcription)

\* no sample frame after the encoder's flush output
FramesBeforeFlush(data) ==
    \A i \in 1..Len(data), j \in 1..Len(data) :
        (data[i] = "flush" /\ data[j] = "frame") => j < i

\* C11: stop_recording drops the device stream before it flushes the encoder: while
\* a stop is about to flush, the recorder it holds has no stream and no callback
\* invocation under way; a recorder without a stream (torn down, or dropped once
\* stop has returned) never has a callback invocation under way, so it writes
\* nothing more; and in every artifact every frame a callback wrote precedes the
\* flush output.
C11_StreamDownBeforeFlush ==
    /\ \A t \in TaskIds :
         pc[t] = "p_flush"
            => /\ held[t] \in TaskIds
               /\ ~rec[held[t]].stream
               /\ rec[held[t]].callback = "idle"
    /\ \A r \in TaskIds : ~rec[r].stream => rec[r].callback = "idle"
    /\ \A t \in TaskIds : res[t] = "OkSome" => held[t] = 0
    /\ \A p \in Paths : FramesBeforeFlush(files[p].data)

\* a stop has returned an artifact that holds a callback's frame and then the flush
C11_Witness ==
    \E t \in TaskIds :
        /\ res[t] = "OkSome"
        /\ files[pipe[t].audio_path].data = <<"frame", "flush">>
        /\ \A r \in TaskIds : ~rec[r].alive

\* C12: a stop whose flush or write fails (the artifact receives no flush output)
\* does not return the artifact; it returns an error.
C12_FinalizeFailureReported ==
    [][ \A t \in TaskIds :
          (/\ pc[t] = "p_flush" /\ pc'[t] # "p_flush"
           /\ rec[held[t]].encoder /\ rec[held[t]].output_file
           /\ files' = files)
             => /\ res'[t] # "OkSome"
                /\ pipe'[t].audio_path = 0
      ]_vars

\* C13: the stop that follows a stream error returns no artifact.
C13_DeviceLostReported ==
    [][ \A t \in TaskIds :
          (/\ pc[t] = "p_flush" /\ pc'[t] # "p_flush"
           /\ rec[held[t]].stream_error)
             => /\ res'[t] # "OkSome"
                /\ pipe'[t].audio_path = 0
      ]_vars

\* C14: the stop of a session a successful start opened returns Some(artifact), and
\* the artifact ends with the encoder's flush output, whatever the number of
\* callback invocations in between.
C14_ArtifactIsFlushed ==
    [][ \A t \in TaskIds :
          (pc[t] = "p_flush" /\ pc'[t] # "p_flush")
             => /\ res'[t] = "OkSome"
                /\ pipe'[t].audio_path = rec[held[t]].current_file
                /\ LET data == files'[rec[held[t]].current_file].data
                   IN  data # <<>> /\ data[Len(data)] = "flush"
      ]_vars

\* C15: no step of a callback invocation writes to a file.
C15_CallbackWritesNothing ==
    [][ \A r \in TaskIds :
          (rec[r].callback = "converted" /\ rec'[r].callback = "idle")
             => files' = files
      ]_vars

\* C16: the trigger decision is taken on the transcript after substitution and
\* clean-up; an escalation request is issued only then, after the substitution
\* request, and carries that transcript; no outcome is returned while the
\* escalation request is unanswered; and the transcript of the outcome is the text
\* the decision was taken on.
C16_NormalizeThenDecideThenEscalate ==
    \A t \in TaskIds :
        /\ Normalized(t)
             => /\ pipe[t].transcription
                     = Replace(Join(TrimLines(Lines(Trim(pipe[t].content))), <<"\n">>),
                               <<" ", " ">>, <<" ">>)
                /\ pipe[t].should_process_with_gpt <=> HasTrigger(pipe[t].transcription)
                /\ \A i \in RequestsOf(t, "escalate") :
                     /\ i = 3 /\ pipe[t].requests[2].stage = "substitute"
                     /\ pipe[t].requests[i].text = pipe[t].transcription
        /\ RequestsOf(t, "escalate") # {} => Normalized(t)
        /\ pc[t] \in {"p_key", "p_read", "p_stt", "p_subst", "p_esc"}
             => pipe[t].result = "none"
        /\ (pipe[t].result = "Ok" /\ pipe[t].should_process_with_gpt)
             => RequestsOf(t, "escalate") # {} /\ pc[t] \in {"p_type", "done"}

\* a transcript that holds the phrase only once cleaned up was escalated and answered
C16_Witness ==
    \E t \in TaskIds :
        /\ pipe[t].content = NoteWide
        /\ pipe[t].transcription = TriggerPhrase
        /\ Len(pipe[t].requests) = 3
        /\ pipe[t].result = "Ok"
        /\ pc[t] = "done"

\* C17: with the key absent, not a string or empty, the call fails with the message
\* "OpenAI API key not found. Please add your API key in the settings." (its second
\* sentence is the remediation hint), no request is issued and nothing is typed.
C17_MissingCredentialStopsTheCall ==
    \A t \in TaskIds :
        (/\ res[t] = "OkSome" /\ pc[t] # "p_key"
         /\ store.openAIKey \in {"absent", "notstring", "empty"})
           => /\ pipe[t].result = "Err"
              /\ pipe[t].err
                   = "OpenAI API key not found. Please add your API key in the settings."
              /\ pipe[t].requests = <<>>
              /\ pipe[t].audio_data = <<>>
              /\ pc[t] = "done"
              /\ typed = <<>>

\* the call has failed on an empty key
C17_Witness ==
    \E t \in TaskIds :
        /\ store.openAIKey = "empty"
        /\ res[t] = "OkSome" /\ pc[t] = "done"
        /\ pipe[t].result = "Err"
        /\ pipe[t].requests = <<>>

\* C18: once the transcription request has returned text, the call returns Ok.
C18_LaterFailuresAbsorbed ==
    \A t \in TaskIds :
        (RequestsOf(t, "substitute") # {} /\ pc[t] \in {"p_type", "done"})
           => pipe[t].result = "Ok"

\* C19: no two calls of process_audio_file are given the same artifact path.
C19_ArtifactSubmittedOnce ==
    \A t \in TaskIds, u \in TaskIds :
        (t # u /\ pipe[t].audio_path # 0) => pipe[t].audio_path # pipe[u].audio_path

\* C20: the artifact a stop has returned is never the file of another recorder.
C20_PathsNeverShared ==
    \A t \in TaskIds, r \in TaskIds :
        (res[t] = "OkSome" /\ rec[r].alive) => rec[r].current_file # pipe[t].audio_path

\* C21: the is_recording command leaves the state, every recorder (stream, encoder,
\* file handle), every file and the lock as they were, and it returns true exactly
\* when a recorder with an open stream exists, that is, a session a start has
\* begun and no stop has ended.
C21_IsRecordingIsAPureRead ==
    [][ \A t \in TaskIds :
          (pc[t] = "q_lock" /\ pc'[t] # "q_lock")
             => /\ res'[t] \in {"True", "False"}
                /\ (res'[t] = "True") <=> (Sessions # {})
                /\ (res'[t] = "True") <=> (state.recorder \in Sessions)
                /\ state' = state /\ rec' = rec /\ files' = files /\ lock' = lock
      ]_vars

\* the command has answered false before the session and true during it
C21_Witness ==
    \E t \in TaskIds, u \in TaskIds :
        /\ res[t] = "False" /\ res[u] = "True"
        /\ state.is_recording /\ Sessions # {}

\* the request is built from the values task t's call holds
UsesSnapshot(req, p) ==
    /\ req.key = p.api_key
    /\ req.stage = "transcribe" => req.prompt = p.whisper_prompt
    /\ req.stage = "escalate" => req.prompt = p.llm_prompt

\* C22: a call reads the key once and then the vocabulary and the instructions
\* once, taking what the store holds at that moment, before any request is issued;
\* what it has read never changes afterwards, whatever is saved to the store; every
\* request of every stage is built from what it has read; and no step of the call
\* writes to the store.
C22_ConfigurationReadOnce ==
    [][ /\ \A t \in TaskIds :
             /\ (pc[t] = "p_key" /\ pc'[t] = "p_settings")
                  => pipe'[t].api_key = store.openAIKey
             /\ (pc[t] = "p_settings" /\ pc'[t] # "p_settings")
                  => /\ pipe'[t].whisper_prompt = store.whisperPrompt
                     /\ pipe'[t].llm_prompt = store.llmPrompt
             /\ pc[t] \notin {"idle", "p_key"} => pipe'[t].api_key = pipe[t].api_key
             /\ pc[t] \notin {"idle", "p_key", "p_settings"}
                  => /\ pipe'[t].whisper_prompt = pipe[t].whisper_prompt
                     /\ pipe'[t].llm_prompt = pipe[t].llm_prompt
             /\ pc'[t] \in {"p_key", "p_settings"} => pipe'[t].requests = <<>>
             /\ \A i \in 1..Len(pipe'[t].requests) :
                  UsesSnapshot(pipe'[t].requests[i], pipe'[t])
        /\ (pc' # pc \/ pipe' # pipe) => store' = store
      ]_vars

\* the escalation request went out with the key and the instructions read at the
\* start although the store holds others by now
C22_Witness ==
    \E t \in TaskIds :
        /\ RequestsOf(t, "escalate") = {3}
        /\ pipe[t].requests[3].prompt = Fix /\ store.llmPrompt = Empty
        /\ pipe[t].requests[3].key = "valid" /\ store.openAIKey = "valid2"
        /\ pipe[t].requests[1].prompt = <<"a">> /\ store.whisperPrompt = Empty

\* C23: a process_audio_file call that has been invoked returns in the end, with
\* an outcome or with an error, whatever starts and stops happen meanwhile.
C23_ProcessReturns ==
    \A t \in TaskIds : (pc[t] = "p_key") ~> (pipe[t].result # "none")

\* the call of the first session has returned while a later session is recording
C23_Witness ==
    /\ pipe[1].result = "Ok"
    /\ state.is_recording /\ Sessions # {}
    /\ \E u \in TaskIds : pc[u] = "p_lock"

\* C24: a start_recording that fails for want of an input device or of a supported
\* sample format returns that error and leaves the recorder idle: not recording, no
\* artifact path held, the next stop_recording a no-op, the next start_recording
\* not turned away.
C24_FailedStartLeavesIdle ==
    \A t \in TaskIds :
        pc[t] = "s_start"
           => \A o \in {"NoDevice", "Unsupported"} :
                LET r == start_recording(rec[t], o, clock)
                IN  /\ r.res = o
                    /\ ~r.rec.is_recording
                    /\ r.rec.current_file = 0
                    /\ stop_stream(r.rec) = r.rec
                    /\ start_recording(r.rec, "Ok", clock).res = "Ok"

\* C25: when stop_recording_audio returns, the state is not recording and holds no
\* recorder, no recorder exists any more (no stream, encoder or file handle), the
\* lock is free, and a following start is not turned away as already recording.
C25_NoSessionAfterStop ==
    [][ \A t \in TaskIds :
          (pc[t] \in {"p_check", "p_flush"} /\ pc'[t] \notin {"p_check", "p_flush"})
             => /\ ~state'.is_recording /\ state'.recorder = 0
                /\ \A r \in TaskIds : rec'[r] = NoRecorder
                /\ lock' = 0
                /\ ~AlreadyRecording(state')
      ]_vars

\* a session was stopped with an artifact and the next start opened another
C25_Witness ==
    \E t \in TaskIds, u \in TaskIds, v \in TaskIds :
        /\ u # v
        /\ res[t] = "OkSome"
        /\ kind[u] = "start" /\ res[u] = "Ok"
        /\ kind[v] = "start" /\ res[v] = "Ok"
        /\ state.recorder = v /\ v \in Sessions

\* C26: a task is about to type only after its call returned Ok; what has been
\* typed are final texts (openai_response) of calls that returned Ok, no more of
\* them than there are such calls; a release whose stop or call failed types
\* nothing.
C26_TypedOnlyAfterSuccess ==
    /\ \A t \in TaskIds :
         pc[t] = "p_type" => pipe[t].result = "Ok" /\ res[t] = "OkSome"
    /\ Len(typed) <= Cardinality({t \in TaskIds : pc[t] = "done" /\ pipe[t].result = "Ok"})
    /\ \A i \in 1..Len(typed) :
         \E t \in TaskIds :
            /\ pc[t] = "done" /\ pipe[t].result = "Ok"
            /\ typed[i] = pipe[t].openai_response

\* the answer of an escalated call was typed, and not its transcript
C26_Witness ==
    \E t \in TaskIds :
        /\ pc[t] = "done" /\ pipe[t].result = "Ok"
        /\ pipe[t].should_process_with_gpt
        /\ pipe[t].openai_response # pipe[t].transcription
        /\ typed = <<pipe[t].openai_response>>

\* C27: a released-key task that got no artifact from stop got Ok(None), ran no
\* pipeline and typed nothing.
C27_ReleaseWithoutSessionIsSilent ==
    /\ \A t \in TaskIds :
         (kind[t] = "stop" /\ pc[t] = "done" /\ pipe[t].audio_path = 0)
            => res[t] = "OkNone" /\ pipe[t] = NoPipe
    /\ Len(typed) <= Cardinality({t \in TaskIds : pipe[t].audio_path # 0})

\* two releases found no session: nothing was run and nothing typed
C27_Witness ==
    \E t \in TaskIds, u \in TaskIds :
        /\ t # u
        /\ kind[t] = "stop" /\ pc[t] = "done" /\ res[t] = "OkNone"
        /\ kind[u] = "stop" /\ pc[u] = "done" /\ res[u] = "OkNone"
        /\ typed = <<>>
        /\ \A v \in TaskIds : pipe[v] = NoPipe

\* C28: whenever the state lock is free, is_recording is true exactly when a
\* recorder is present; and no stop returns "No recorder found".
C28_FlagMatchesRecorder ==
    /\ lock = 0 => (state.is_recording <=> state.recorder # 0)
    /\ \A t \in TaskIds : res[t] # "NoRecorderFound"

\* the lock is free while a session is open and after one has been closed
C28_Witness ==
    /\ lock = 0
    /\ state.is_recording /\ state.recorder \in Sessions
    /\ \E t \in TaskIds : res[t] = "OkSome"

\* C29: after one press and its release, once both tasks have finished, the state
\* is not recording and no session is open.
C29_PressReleaseEndsIdle ==
    (/\ kind[1] = "start" /\ pc[1] = "done"
     /\ kind[2] = "stop" /\ pc[2] = "done"
     /\ \A t \in TaskIds : t > 2 => kind[t] = "none")
       => ~state.is_recording /\ Sessions = {}

\* C30: the final text of a later session is not typed while the call of the
\* first session has returned Ok and its text is yet to be typed.
C30_TypedInSessionOrder ==
    \A u \in TaskIds :
        (/\ u # 1 /\ kind[u] = "stop" /\ pipe[u].audio_path # 0
         /\ pc[u] = "done" /\ pipe[u].result = "Ok"
         /\ typed = <<pipe[u].openai_response>>)
           => ~(pc[1] = "p_type" /\ pipe[1].result = "Ok")

\* a task that has yet to return from start_recording_audio, stop_recording_audio
\* or is_recording
Unfinished(t) ==
    kind[t] # "none" /\ pc[t] \notin {"idle", "done", "p_key"}

\* some thread has a step to take: a task, or the audio thread inside a callback
SomeThreadCanStep ==
    ENABLED ((\E t \in TaskIds : TaskStep(t)) \/ (\E r \in TaskIds : CallbackStep(r)))

\* a lock is taken only by a thread that holds no lock later in the order state
\* lock, encoder lock, file lock, and holds the locks before it that its path takes
AcquiresInOrder ==
    /\ \A t \in TaskIds :
         (lock' = t /\ lock # t)
            => \A r \in TaskIds :
                 held[t] = r => rec[r].encoder_lock # "stop" /\ rec[r].file_lock # "stop"
    /\ \A r \in TaskIds :
         (rec[r].encoder_lock = "free" /\ rec'[r].encoder_lock # "free")
            => /\ rec[r].file_lock # rec'[r].encoder_lock
               /\ rec'[r].encoder_lock = "stop"
                    => \E t \in TaskIds : held[t] = r /\ lock = t
    /\ \A r \in TaskIds :
         (rec[r].file_lock = "free" /\ rec'[r].file_lock # "free")
            => rec[r].encoder_lock = rec'[r].file_lock

\* C31: the state lock, the encoder lock and the file lock are taken in that
\* order by every thread (the callback takes the last two only), and in no
\* reachable state are all threads blocked: while a task has yet to return or a
\* callback invocation is under way, some thread has a step to take.
C31_NoDeadlock ==
    /\ []((\/ \E t \in TaskIds : Unfinished(t)
           \/ \E r \in TaskIds : rec[r].callback # "idle")
             => SomeThreadCanStep)
    /\ [][AcquiresInOrder]_vars

\* a callback invocation holds the encoder lock and the file lock while a stop
\* that holds the state lock waits for it to return and a third thread waits for
\* the state lock
C31_Witness ==
    \E t \in TaskIds, u \in TaskIds :
        /\ pc[t] = "p_check" /\ lock = t
        /\ state.recorder # 0
        /\ rec[state.recorder].callback = "file"
        /\ rec[state.recorder].encoder_lock = "callback"
        /\ rec[state.recorder].file_lock = "callback"
        /\ pc[u] = "q_lock"

\* C32: the whitespace clean-up is idempotent: applied again to the normalized
\* transcript it left, it changes nothing.
C32_CleanupIdempotent ==
    \A t \in TaskIds :
        Normalized(t) => WhitespaceCleanup(pipe[t].transcription) = pipe[t].transcription

====
